---------------------------- MODULE Spec2Model ----------------------------
(***************************************************************************)
(* Pool-cue documentation app: the technical-drawing pipeline of the       *)
(* shared TechnicalDrawing component (dimension parsing, cross-section     *)
(* profile, thread regions, thread pattern), the machining-step editor     *)
(* that feeds it, the record pages (pins, joints, modifications, ferrules) *)
(* with their cloud store and local storage, and the SearchFilter.         *)
(*                                                                         *)
(* Dimension texts are sequences of one-character strings, so that the     *)
(* JavaScript string operations the code uses (trim, includes, replace,    *)
(* split, Number, parseFloat) are computed character by character.         *)
(* Numbers are exact rationals <<n, d>> in lowest terms with d > 0;        *)
(* <<0, 0>> is NaN and <<1, 0>>, <<-1, 0>> are the two infinities, which   *)
(* the literal "Infinity" parses to.  Exponent notation and IEEE rounding  *)
(* are not modelled (the pipeline only divides, halves, scales, compares). *)
(***************************************************************************)
EXTENDS Integers, Sequences, FiniteSets, TLC

VARIABLES
    spec,      \* the ComponentSpec shown by the form / card
    edits,     \* number of editor updates applied to spec in this session
    drawn,     \* TRUE when profile/threads/metrics were rendered from spec
    profile,   \* segments returned by generateCrossSectionProfile
    threads,   \* per tap operation, what the thread visualisation resolved
    metrics,   \* maxDiameter / maxDepth / scale used by the last render
    scene,     \* canvas size and lines of the last render
    input,     \* argument handed to parseDimensionWithUnit
    dim,       \* its result (Unparsed before the call)
    store,     \* cloud collection and local storage of the open record page
    view,      \* the open record page: list shown, form, last handler run
    loop,      \* the thread-pattern loops of the render in progress
    search     \* the SearchFilter of a record page: its items, controls, output

vars == <<spec, edits, drawn, profile, threads, metrics, scene, input, dim, store, view,
          loop, search>>

-----------------------------------------------------------------------------
(* Bounds of the model *)

MaxSteps == 3
MaxEdits == 1
MaxLen == 3
MaxRecords == 2
MaxPixels == 400
MaxInFlight == 2

-----------------------------------------------------------------------------
(* Evaluation helpers *)

\* F applied to the value of x (x is evaluated once, like a JavaScript const)
With(x, F(_)) == CHOOSE r \in {F(v) : v \in {x}} : TRUE

With2(x, y, F(_, _)) == CHOOSE r \in {F(v, w) : v \in {x}, w \in {y}} : TRUE

-----------------------------------------------------------------------------
(* Exact numbers *)

Abs(x) == IF x < 0 THEN 0 - x ELSE x

Sign(x) == IF x < 0 THEN 0 - 1 ELSE IF x > 0 THEN 1 ELSE 0

RECURSIVE GCD(_, _)
GCD(a, b) == IF b = 0 THEN a ELSE GCD(b, a % b)

\* the number n/d; d = 0 gives the non-finite values of IEEE division
Rat(n, d) ==
    IF d = 0 THEN <<Sign(n), 0>>
    ELSE With(GCD(Abs(n), Abs(d)), LAMBDA g : <<Sign(d) * (n \div g), Abs(d) \div g>>)

NaN == <<0, 0>>
Zero == <<0, 1>>
isNaN(x) == x = NaN

RMul(a, b) == With2(a, b, LAMBDA x, y : Rat(x[1] * y[1], x[2] * y[2]))
RDiv(a, b) == With2(a, b, LAMBDA x, y : Rat(x[1] * y[2], x[2] * y[1]))
\* two infinities add to themselves when they agree and to NaN otherwise
RAdd(a, b) ==
    With2(a, b, LAMBDA x, y :
        IF x[2] = 0 /\ y[2] = 0 THEN (IF x = y THEN x ELSE NaN)
        ELSE Rat(x[1] * y[2] + y[1] * x[2], x[2] * y[2]))
RSub(a, b) == With2(a, b, LAMBDA x, y : RAdd(x, <<0 - y[1], y[2]>>))

\* JavaScript <, >, >= : false as soon as one side is NaN
RLt(a, b) ==
    With2(a, b, LAMBDA x, y :
        /\ ~isNaN(x) /\ ~isNaN(y)
        /\ IF x[2] = 0 /\ y[2] = 0 THEN x[1] < y[1] ELSE x[1] * y[2] < y[1] * x[2])
RGt(a, b) == RLt(b, a)
RGe(a, b) ==
    With2(a, b, LAMBDA x, y :
        /\ ~isNaN(x) /\ ~isNaN(y)
        /\ IF x[2] = 0 /\ y[2] = 0 THEN x[1] >= y[1] ELSE x[1] * y[2] >= y[1] * x[2])

\* Math.max of two numbers
MathMax(a, b) ==
    With2(a, b, LAMBDA x, y :
        IF isNaN(x) \/ isNaN(y) THEN NaN ELSE IF RLt(x, y) THEN y ELSE x)

-----------------------------------------------------------------------------
(* JavaScript string operations on character sequences *)

Digits == <<"0", "1", "2", "3", "4", "5", "6", "7", "8", "9">>

IsDigit(c) == \E i \in 1..10 : Digits[i] = c

DigitVal(c) == (CHOOSE i \in 1..10 : Digits[i] = c) - 1

\* index of the first character of s at or after i that is not a blank
RECURSIVE SkipBlanks(_, _)
SkipBlanks(s, i) ==
    IF i <= Len(s) /\ s[i] = " " THEN SkipBlanks(s, i + 1) ELSE i

\* index of the last character of s at or before i that is not a blank
RECURSIVE SkipBlanksBack(_, _)
SkipBlanksBack(s, i) ==
    IF i >= 1 /\ s[i] = " " THEN SkipBlanksBack(s, i - 1) ELSE i

TrimStart(s) == With(s, LAMBDA t : SubSeq(t, SkipBlanks(t, 1), Len(t)))

TrimEnd(s) == With(s, LAMBDA t : SubSeq(t, 1, SkipBlanksBack(t, Len(t))))

Trim(s) == TrimEnd(TrimStart(s))

LowerChar(c) ==
    CASE c = "M" -> "m" [] c = "C" -> "c" [] c = "I" -> "i" [] c = "A" -> "a"
      [] c = "B" -> "b" [] OTHER -> c

RECURSIVE LowerFrom(_, _)
LowerFrom(s, i) ==
    IF i > Len(s) THEN <<>> ELSE <<LowerChar(s[i])>> \o LowerFrom(s, i + 1)

ToLowerCase(s) == With(s, LAMBDA t : LowerFrom(t, 1))

Includes(s, sub) ==
    With(s, LAMBDA t :
        \E i \in 1..(Len(t) - Len(sub) + 1) : SubSeq(t, i, i + Len(sub) - 1) = sub)

\* s.replace(/sub/g, '') from position i on: leftmost, non-overlapping
\* occurrences removed
RECURSIVE RemoveFrom(_, _, _)
RemoveFrom(s, sub, i) ==
    IF i > Len(s) THEN <<>>
    ELSE IF i + Len(sub) - 1 <= Len(s) /\ SubSeq(s, i, i + Len(sub) - 1) = sub
         THEN RemoveFrom(s, sub, i + Len(sub))
         ELSE <<s[i]>> \o RemoveFrom(s, sub, i + 1)

RemoveAll(s, sub) == With(s, LAMBDA t : RemoveFrom(t, sub, 1))

\* index of the first "/" of s at or after i, or Len(s) + 1
RECURSIVE SlashAt(_, _)
SlashAt(s, i) ==
    IF i > Len(s) \/ s[i] = "/" THEN i ELSE SlashAt(s, i + 1)

\* the first two elements of s.split('/'), for a string that contains "/"
SplitSlash(s) ==
    With(s, LAMBDA t :
        With(SlashAt(t, 1), LAMBDA i :
            <<SubSeq(t, 1, i - 1), SubSeq(t, i + 1, SlashAt(t, i + 1) - 1)>>))

\* number of digits of s from position i on
RECURSIVE DigitRun(_, _)
DigitRun(s, i) ==
    IF i <= Len(s) /\ IsDigit(s[i]) THEN 1 + DigitRun(s, i + 1) ELSE 0

\* the one spelling of the literal Infinity that StrDecimalLiteral accepts
InfinityLiteral == <<"I", "n", "f", "i", "n", "i", "t", "y">>

\* length of the longest prefix of s that is a signed decimal literal
\* (StrDecimalLiteral without exponent), 0 when there is none
ScanDecimal(s) ==
    With(s, LAMBDA t :
        With(IF t # <<>> /\ t[1] \in {"+", "-"} THEN 1 ELSE 0, LAMBDA sg :
            With(DigitRun(t, sg + 1), LAMBDA ip :
                IF /\ Len(t) >= sg + 8
                   /\ t[sg + 1] = "I"
                   /\ SubSeq(t, sg + 1, sg + 8) = InfinityLiteral
                THEN sg + 8
                ELSE IF sg + ip + 1 <= Len(t) /\ t[sg + ip + 1] = "."
                THEN With(DigitRun(t, sg + ip + 2), LAMBDA fp :
                         IF ip + fp = 0 THEN 0 ELSE sg + ip + 1 + fp)
                ELSE IF ip = 0 THEN 0 ELSE sg + ip)))

RECURSIVE DigitsValue(_, _)
DigitsValue(s, i) ==
    IF i = 0 THEN 0 ELSE 10 * DigitsValue(s, i - 1) + DigitVal(s[i])

RECURSIVE Pow10(_)
Pow10(k) == IF k = 0 THEN 1 ELSE 10 * Pow10(k - 1)

\* mathematical value of a signed decimal literal
DecimalValue(lit) ==
    With(lit, LAMBDA l :
        With(IF l[1] \in {"+", "-"} THEN Tail(l) ELSE l, LAMBDA body :
            IF body = InfinityLiteral
            THEN Rat(IF l[1] = "-" THEN 0 - 1 ELSE 1, 0)
            ELSE With(DigitRun(body, 1), LAMBDA ip :
                With(SubSeq(body, 1, ip) \o SubSeq(body, ip + 2, Len(body)), LAMBDA ds :
                    Rat((IF l[1] = "-" THEN 0 - 1 ELSE 1) * DigitsValue(ds, Len(ds)),
                        Pow10(Len(ds) - ip))))))

\* parseFloat(s)
ParseFloat(s) ==
    With(TrimStart(s), LAMBDA t :
        With(ScanDecimal(t), LAMBDA k :
            IF k = 0 THEN NaN ELSE DecimalValue(SubSeq(t, 1, k))))

\* Number(s) for a string s
ToNumber(s) ==
    With(Trim(s), LAMBDA t :
        IF t = <<>> THEN Zero
        ELSE IF ScanDecimal(t) = Len(t) THEN DecimalValue(t)
        ELSE NaN)

-----------------------------------------------------------------------------
(* utils: dimension parsing *)

\* JavaScript values handed to the parser: a string, a number, or neither
Str(s) == [type |-> "string", s |-> s, n |-> Zero]
Num(n) == [type |-> "number", s |-> <<>>, n |-> n]
Undefined == [type |-> "undefined", s |-> <<>>, n |-> Zero]

\* step.depth || '0'
OrZero(s) == With(s, LAMBDA t : IF t # <<>> THEN t ELSE <<"0">>)

\* the decimal branch: parseFloat, NaN becoming 0
ParseDecimal(s) ==
    With(ParseFloat(s), LAMBDA numericValue :
        IF isNaN(numericValue) THEN Zero ELSE numericValue)

\* the fraction branch, taken for a string that contains "/"
ParseFraction(s) ==
    With(SplitSlash(s), LAMBDA parts :
        With2(ToNumber(parts[1]), ToNumber(parts[2]), LAMBDA numerator, denominator :
            IF ~isNaN(numerator) /\ ~isNaN(denominator) /\ denominator # Zero
            THEN RDiv(numerator, denominator)
            ELSE ParseDecimal(s)))

parseValue(value) ==
    With(value, LAMBDA v :
        IF v.type = "number" THEN v.n
        ELSE IF v.type # "string" THEN Zero
        ELSE IF Includes(v.s, <<"/">>) THEN ParseFraction(v.s)
        ELSE ParseDecimal(v.s))

\* originalString is display-only: the result keeps value and unit
parseDimensionWithUnit(value) ==
    With(value, LAMBDA v :
        IF v.type = "number" THEN [value |-> v.n, unit |-> "inches"]
        ELSE IF v.type # "string" THEN [value |-> Zero, unit |-> "inches"]
        ELSE With(Trim(v.s), LAMBDA originalString :
                 With(ToLowerCase(originalString), LAMBDA lowerValue :
                     IF Includes(lowerValue, <<"m", "m">>)
                     THEN [value |-> parseValue(Str(Trim(RemoveAll(lowerValue, <<"m", "m">>)))),
                           unit |-> "mm"]
                     ELSE IF Includes(lowerValue, <<"c", "m">>)
                     THEN [value |-> parseValue(Str(Trim(RemoveAll(lowerValue, <<"c", "m">>)))),
                           unit |-> "cm"]
                     ELSE [value |-> parseValue(Str(originalString)), unit |-> "inches"])))

convertToInches(dimension) ==
    With(dimension, LAMBDA d :
        CASE d.unit = "mm" -> RDiv(d.value, Rat(254, 10))
          [] d.unit = "cm" -> RDiv(d.value, Rat(254, 100))
          [] OTHER -> d.value)

\* convertToInches(parseDimensionWithUnit(text)) for a text field
Inches(text) == convertToInches(parseDimensionWithUnit(Str(text)))

\* the forEach of getMaxDiameter from step i on
RECURSIVE MaxDiameterFrom(_, _, _)
MaxDiameterFrom(machiningSteps, i, maxDiameter) ==
    IF i > Len(machiningSteps) THEN maxDiameter
    ELSE With(IF machiningSteps[i].size # <<>>
              THEN With(Inches(machiningSteps[i].size), LAMBDA diameter :
                       IF RGt(diameter, maxDiameter) THEN diameter ELSE maxDiameter)
              ELSE maxDiameter,
              LAMBDA m : MaxDiameterFrom(machiningSteps, i + 1, m))

getMaxDiameter(machiningSteps) ==
    With(machiningSteps, LAMBDA steps : MaxDiameterFrom(steps, 1, Zero))

\* "if (text) { ... if (v > maxDepth) maxDepth = v }" for one text
RaiseTo(maxDepth, text) ==
    IF text # <<>>
    THEN With(Inches(text), LAMBDA v : IF RGt(v, maxDepth) THEN v ELSE maxDepth)
    ELSE maxDepth

\* the forEach of getMaxDepth from step i on
RECURSIVE MaxDepthFrom(_, _, _)
MaxDepthFrom(machiningSteps, i, maxDepth) ==
    IF i > Len(machiningSteps) THEN maxDepth
    ELSE With(RaiseTo(maxDepth, machiningSteps[i].depth),
              LAMBDA m : MaxDepthFrom(machiningSteps, i + 1, m))

getMaxDepth(machiningSteps, exposedLength, materialLength) ==
    With(machiningSteps, LAMBDA steps :
        With(MaxDepthFrom(steps, 1, Zero), LAMBDA d1 :
            With(RaiseTo(d1, exposedLength), LAMBDA d2 :
                RaiseTo(d2, materialLength))))

-----------------------------------------------------------------------------
(* Array.prototype.sort (stable) and filter *)

\* put the pair p = <<key, item>> after every pair that need not follow it
RECURSIVE InsertPair(_, _, _, _)
InsertPair(sorted, i, p, desc) ==
    IF i > Len(sorted) THEN sorted \o <<p>>
    ELSE IF (IF desc THEN RGt(p[1], sorted[i][1]) ELSE RLt(p[1], sorted[i][1]))
         THEN SubSeq(sorted, 1, i - 1) \o <<p>> \o SubSeq(sorted, i, Len(sorted))
         ELSE InsertPair(sorted, i + 1, p, desc)

\* the first n pairs of pairs, sorted by key
RECURSIVE SortFirst(_, _, _)
SortFirst(pairs, n, desc) ==
    IF n = 0 THEN <<>>
    ELSE With(SortFirst(pairs, n - 1, desc), LAMBDA sorted :
             InsertPair(sorted, 1, pairs[n], desc))

SortPairs(pairs, desc) ==
    With(<<>> \o pairs, LAMBDA ps : SortFirst(ps, Len(ps), desc))

\* the second components of a sequence of pairs
RECURSIVE Items(_, _)
Items(pairs, i) ==
    IF i > Len(pairs) THEN <<>> ELSE <<pairs[i][2]>> \o Items(pairs, i + 1)

RECURSIVE SelectIdx(_, _, _)
SelectIdx(n, i, keep) ==
    IF i > n THEN <<>>
    ELSE (IF i \in keep THEN <<i>> ELSE <<>>) \o SelectIdx(n, i + 1, keep)

\* the indices of keep in increasing order (what Array.filter retains)
Filtered(n, keep) == SelectIdx(n, 1, keep)

-----------------------------------------------------------------------------
(* TechnicalDrawing: material diameter and cross-section profile *)

\* variant: the machined diameter is used without the 25% stock allowance
getMaterialDiameter_NoAllowance(s) ==
    IF s.diameter # <<>> THEN Inches(s.diameter)
    ELSE getMaxDiameter(s.machiningSteps)

getMaterialDiameter(s) ==
    IF s.diameter # <<>> THEN Inches(s.diameter)
    ELSE RMul(getMaxDiameter(s.machiningSteps), Rat(125, 100))

\* the steps generateCrossSectionProfile keeps as drill operations
IsDrillOp(step) ==
    /\ step.process = "Drill"
    /\ RGt(parseValue(Str(OrZero(step.depth))), Zero)
    /\ RGt(parseValue(Str(OrZero(step.size))), Zero)

\* the map of generateCrossSectionProfile, as <<depth, drill operation>> pairs
RECURSIVE DrillPairs(_, _, _)
DrillPairs(steps, kept, k) ==
    IF k > Len(kept) THEN <<>>
    ELSE With(Inches(OrZero(steps[kept[k]].depth)), LAMBDA depth :
             <<<<depth, [depth |-> depth,
                         radius |-> RDiv(Inches(OrZero(steps[kept[k]].size)), Rat(2, 1))]>>>>
                 \o DrillPairs(steps, kept, k + 1))

\* drillOps: filtered, converted to inches, sorted deepest first
DrillOps(s) ==
    With(s.machiningSteps, LAMBDA steps :
        With(Filtered(Len(steps), {i \in 1..Len(steps) : IsDrillOp(steps[i])}), LAMBDA kept :
            With(SortPairs(DrillPairs(steps, kept, 1), TRUE), LAMBDA sorted :
                Items(sorted, 1))))

\* variant: the reduce keeps its first element (the deepest hole wins)
LargestHole_Deepest(holes, i, largest) == largest

\* holesAtThisDepth.reduce(...): the first hole of largest radius
RECURSIVE LargestHole(_, _, _)
LargestHole(holes, i, largest) ==
    IF i > Len(holes) THEN largest
    ELSE With(IF RGt(holes[i].radius, largest.radius) THEN holes[i] ELSE largest,
              LAMBDA l : LargestHole(holes, i + 1, l))

RECURSIVE Pick(_, _, _)
Pick(seq, idx, k) ==
    IF k > Len(idx) THEN <<>> ELSE <<seq[idx[k]]>> \o Pick(seq, idx, k + 1)

HolesAtThisDepth(drillOps, segmentEnd) ==
    Pick(drillOps,
         Filtered(Len(drillOps),
             {k \in 1..Len(drillOps) : RGe(drillOps[k].depth, segmentEnd)}), 1)

\* one iteration of the loop over depthPoints
Segment(drillOps, depthPoints, i, originalRadius) ==
    With(HolesAtThisDepth(drillOps, depthPoints[i + 1]), LAMBDA holesAtThisDepth :
        IF Len(holesAtThisDepth) = 0
        THEN [startDepth |-> depthPoints[i], endDepth |-> depthPoints[i + 1],
              radius |-> originalRadius, type |-> "solid",
              outerRadius |-> originalRadius]
        ELSE [startDepth |-> depthPoints[i], endDepth |-> depthPoints[i + 1],
              radius |-> LargestHole(holesAtThisDepth, 2, holesAtThisDepth[1]).radius,
              type |-> "hole", outerRadius |-> originalRadius])

RECURSIVE Segments(_, _, _, _)
Segments(drillOps, depthPoints, i, originalRadius) ==
    IF i > Len(depthPoints) - 1 THEN <<>>
    ELSE <<Segment(drillOps, depthPoints, i, originalRadius)>>
             \o Segments(drillOps, depthPoints, i + 1, originalRadius)

RECURSIVE KeyPairs(_, _)
KeyPairs(keys, i) ==
    IF i > Len(keys) THEN <<>> ELSE <<<<keys[i], keys[i]>>>> \o KeyPairs(keys, i + 1)

RECURSIVE Depths(_, _)
Depths(drillOps, k) ==
    IF k > Len(drillOps) THEN <<>> ELSE <<drillOps[k].depth>> \o Depths(drillOps, k + 1)

\* variant: the breakpoints are sorted deepest first
DepthPoints_Descending(drillOps, maxDepth) ==
    With(<<Zero>> \o Depths(drillOps, 1) \o <<maxDepth>>, LAMBDA points :
        Items(SortPairs(KeyPairs(points, 1), TRUE), 1))

\* [0, ...drillOps.map(op => op.depth), maxDepth].sort((a, b) => a - b)
DepthPoints(drillOps, maxDepth) ==
    With(<<Zero>> \o Depths(drillOps, 1) \o <<maxDepth>>, LAMBDA points :
        Items(SortPairs(KeyPairs(points, 1), FALSE), 1))

generateCrossSectionProfile(s) ==
    With2(RDiv(getMaterialDiameter(s), Rat(2, 1)),
          getMaxDepth(s.machiningSteps, s.exposedLength, s.length),
          LAMBDA originalRadius, maxDepth :
        With(DrillOps(s), LAMBDA drillOps :
            IF Len(drillOps) = 0
            THEN <<[startDepth |-> Zero, endDepth |-> maxDepth, radius |-> originalRadius,
                    type |-> "solid", outerRadius |-> originalRadius]>>
            ELSE With(DepthPoints(drillOps, maxDepth), LAMBDA depthPoints :
                     Segments(drillOps, depthPoints, 1, originalRadius))))

-----------------------------------------------------------------------------
(* TechnicalDrawingSVG: thread visualisation *)

IsHoleStep(step) ==
    step.depth # <<>> /\ step.size # <<>> /\ step.process \in {"Drill", "Bore"}

RECURSIVE DepthPairs(_, _, _)
DepthPairs(steps, kept, k) ==
    IF k > Len(kept) THEN <<>>
    ELSE <<<<parseValue(Str(OrZero(steps[kept[k]].depth))), kept[k]>>>>
             \o DepthPairs(steps, kept, k + 1)

\* indices of the Drill/Bore steps before the tap, deepest first (stable)
PriorDrillOps(steps, tapStepIndex) ==
    With(Filtered(tapStepIndex - 1,
             {j \in 1..(tapStepIndex - 1) : IsHoleStep(steps[j])}), LAMBDA kept :
        Items(SortPairs(DepthPairs(steps, kept, 1), TRUE), 1))

\* indices of the Drill/Bore steps after the tap, in step order
LaterOps(steps, tapStepIndex) ==
    Filtered(Len(steps), {j \in (tapStepIndex + 1)..Len(steps) : IsHoleStep(steps[j])})

\* the for-loop over laterOps that advances threadStartDepth
RECURSIVE ThreadStartFrom(_, _, _, _, _)
ThreadStartFrom(steps, laterOps, k, tapTargetHole, threadStartDepth) ==
    IF k > Len(laterOps) THEN threadStartDepth
    ELSE With(IF RGt(parseValue(Str(OrZero(steps[laterOps[k]].size))),
                     parseValue(Str(OrZero(tapTargetHole.size))))
              THEN MathMax(threadStartDepth,
                           parseValue(Str(OrZero(steps[laterOps[k]].depth))))
              ELSE threadStartDepth,
              LAMBDA d : ThreadStartFrom(steps, laterOps, k + 1, tapTargetHole, d))

\* what the body of tapOps.forEach resolves for the tap at tapStepIndex:
\* target = 0 and marks = FALSE when it returns before drawing
ResolveTap(steps, tapStepIndex, scale) ==
    With(PriorDrillOps(steps, tapStepIndex), LAMBDA priorDrillOps :
        IF Len(priorDrillOps) = 0
        THEN [tap |-> tapStepIndex, target |-> 0, marks |-> FALSE,
              threadStartDepth |-> Zero, threadEndDepth |-> Zero, tapRadius |-> Zero]
        ELSE With(steps[priorDrillOps[1]], LAMBDA tapTargetHole :
                 With2(ThreadStartFrom(steps, LaterOps(steps, tapStepIndex), 1,
                                       tapTargetHole, Zero),
                       parseValue(Str(OrZero(tapTargetHole.depth))),
                       LAMBDA threadStartDepth, threadEndDepth :
                     [tap |-> tapStepIndex, target |-> priorDrillOps[1],
                      marks |-> ~RGe(threadStartDepth, threadEndDepth),
                      threadStartDepth |-> threadStartDepth,
                      threadEndDepth |-> threadEndDepth,
                      tapRadius |-> RMul(RDiv(parseValue(Str(OrZero(tapTargetHole.size))),
                                              Rat(2, 1)), scale)])))

RECURSIVE ResolveTaps(_, _, _, _)
ResolveTaps(steps, tapOps, k, scale) ==
    IF k > Len(tapOps) THEN <<>>
    ELSE <<ResolveTap(steps, tapOps[k], scale)>> \o ResolveTaps(steps, tapOps, k + 1, scale)

\* one entry per element of tapOps, in step order
ThreadRegions(s, scale) ==
    With(s.machiningSteps, LAMBDA steps :
        With(Filtered(Len(steps),
                 {i \in 1..Len(steps) :
                     steps[i].process = "Tap" /\ steps[i].threadSize # <<>>}), LAMBDA tapOps :
            ResolveTaps(steps, tapOps, 1, scale)))

Scale(isModal) == IF isModal THEN Rat(120, 1) ELSE Rat(40, 1)

\* the constants of TechnicalDrawingSVG that depend on isModal
DrawingStyle(isModal) ==
    [ scale |-> Scale(isModal),
      leftPaddingDiameter |-> IF isModal THEN Rat(100, 1) ELSE Rat(30, 1),
      leftPadding |-> IF isModal THEN Rat(50, 1) ELSE Rat(15, 1),
      exposedExtra |-> IF isModal THEN Rat(60, 1) ELSE Rat(40, 1),
      rightPaddingLength |-> IF isModal THEN Rat(80, 1) ELSE Rat(50, 1),
      rightPadding |-> IF isModal THEN Rat(60, 1) ELSE Rat(25, 1),
      topPaddingLength |-> IF isModal THEN Rat(80, 1) ELSE Rat(30, 1),
      topPadding |-> IF isModal THEN Rat(30, 1) ELSE Rat(10, 1),
      bottomPadding |-> IF isModal THEN Rat(150, 1) ELSE Rat(30, 1),
      minWidth |-> Zero, minHeight |-> Zero,
      centerOverhang |-> IF isModal THEN Rat(30, 1) ELSE Rat(10, 1),
      zeroAbove |-> IF isModal THEN Rat(20, 1) ELSE Rat(5, 1),
      zeroBelow |-> IF isModal THEN Rat(60, 1) ELSE Rat(15, 1) ]

\* the same constants in generateSVGString, which also clamps the canvas
PrintStyle ==
    [ scale |-> Rat(100, 1),
      leftPaddingDiameter |-> Rat(120, 1), leftPadding |-> Rat(80, 1),
      exposedExtra |-> Rat(80, 1),
      rightPaddingLength |-> Rat(100, 1), rightPadding |-> Rat(80, 1),
      topPaddingLength |-> Rat(100, 1), topPadding |-> Rat(50, 1),
      bottomPadding |-> Rat(180, 1),
      minWidth |-> Rat(600, 1), minHeight |-> Rat(300, 1),
      centerOverhang |-> Rat(30, 1), zeroAbove |-> Rat(20, 1), zeroBelow |-> Rat(60, 1) ]

\* svgWidth / svgHeight and the placement of the part on the canvas
Canvas(s, maxDiameter, maxDepth, style) ==
    With2(RMul(maxDepth, style.scale), RMul(maxDiameter, style.scale),
          LAMBDA drawingWidth, drawingHeight :
        With2(IF s.exposedLength # <<>>
              THEN RAdd(RMul(Inches(s.exposedLength), style.scale), style.exposedExtra)
              ELSE Zero,
              IF s.length # <<>> THEN style.topPaddingLength ELSE style.topPadding,
              LAMBDA exposedLengthSpace, topPadding :
            With2(MathMax(style.minWidth,
                      RAdd(RAdd(drawingWidth,
                                IF s.diameter # <<>> THEN style.leftPaddingDiameter
                                ELSE style.leftPadding),
                           MathMax(IF s.length # <<>> THEN style.rightPaddingLength
                                   ELSE style.rightPadding,
                                   exposedLengthSpace))),
                  MathMax(style.minHeight,
                      RAdd(RAdd(drawingHeight, topPadding), style.bottomPadding)),
                  LAMBDA svgWidth, svgHeight :
                With(RDiv(svgWidth, Rat(2, 1)), LAMBDA centerX :
                    [ svgWidth |-> svgWidth, svgHeight |-> svgHeight,
                      leftX |-> RSub(centerX, RDiv(drawingWidth, Rat(2, 1))),
                      rightX |-> RAdd(centerX, RDiv(drawingWidth, Rat(2, 1))),
                      adjustedCenterY |-> RAdd(topPadding, RDiv(drawingHeight, Rat(2, 1))),
                      scale |-> style.scale ]))))

\* a <line> element
Line(x1, y1, x2, y2) == [x1 |-> x1, y1 |-> y1, x2 |-> x2, y2 |-> y2]

\* the two mirrored vertical lines of a shoulder at x, from radius `from` to
\* radius `to` (both in pixels)
ShoulderLines(x, cy, from, to) ==
    << Line(x, RSub(cy, from), x, RSub(cy, to)),
       Line(x, RAdd(cy, from), x, RAdd(cy, to)) >>

\* variant: the neighbour's radius is compared whatever its type
IsShoulder_AnyNeighbour(segment, neighbour) ==
    neighbour.radius # segment.radius

\* prevSegment.type === 'hole' && prevSegment.radius !== segment.radius
IsShoulder(segment, neighbour) ==
    neighbour.type = "hole" /\ neighbour.radius # segment.radius

\* the <g> of profile segment index: outer lines, and for a hole the inner
\* lines and, with more than one drill operation, the shoulders
SegmentLines(prof, index, cv, maxDiameter, drillOpsLength) ==
    With(prof[index], LAMBDA segment :
      With2(RSub(cv.rightX, RMul(segment.startDepth, cv.scale)),
            RSub(cv.rightX, RMul(segment.endDepth, cv.scale)),
            LAMBDA segmentStartX, segmentEndX :
        With2(RMul(segment.radius, cv.scale),
              RMul(IF segment.outerRadius # Zero THEN segment.outerRadius
                   ELSE RDiv(maxDiameter, Rat(2, 1)), cv.scale),
              LAMBDA innerRadius, outerRadius :
          With(cv.adjustedCenterY, LAMBDA cy :
            << Line(segmentStartX, RSub(cy, outerRadius), segmentEndX, RSub(cy, outerRadius)),
               Line(segmentStartX, RAdd(cy, outerRadius), segmentEndX, RAdd(cy, outerRadius)) >>
            \o (IF segment.type # "hole" THEN <<>>
                ELSE << Line(segmentStartX, RSub(cy, innerRadius), segmentEndX, RSub(cy, innerRadius)),
                        Line(segmentStartX, RAdd(cy, innerRadius), segmentEndX, RAdd(cy, innerRadius)) >>
                     \o (IF drillOpsLength <= 1 THEN <<>>
                         ELSE (IF index > 1 /\ IsShoulder(segment, prof[index - 1])
                               THEN ShoulderLines(segmentStartX, cy, innerRadius,
                                                  RMul(prof[index - 1].radius, cv.scale))
                               ELSE <<>>)
                              \o (IF index < Len(prof) /\ IsShoulder(segment, prof[index + 1])
                                  THEN ShoulderLines(segmentEndX, cy, innerRadius,
                                                     RMul(prof[index + 1].radius, cv.scale))
                                  ELSE <<>>)))))))

RECURSIVE ProfileLines(_, _, _, _, _)
ProfileLines(prof, index, cv, maxDiameter, drillOpsLength) ==
    IF index > Len(prof) THEN <<>>
    ELSE SegmentLines(prof, index, cv, maxDiameter, drillOpsLength)
             \o ProfileLines(prof, index + 1, cv, maxDiameter, drillOpsLength)

\* the dotted outline of the exposed part of a pin, 0.25 in. across
ExposedLines(s, cv) ==
    IF s.exposedLength = <<>> THEN <<>>
    ELSE With2(RAdd(cv.rightX, RMul(Inches(s.exposedLength), cv.scale)),
               RMul(Rat(1, 8), cv.scale),
               LAMBDA exposedEndX, exposedRadiusPixels :
             With2(RSub(cv.adjustedCenterY, exposedRadiusPixels),
                   RAdd(cv.adjustedCenterY, exposedRadiusPixels),
                   LAMBDA top, bottom :
                 << Line(cv.rightX, top, exposedEndX, top),
                    Line(cv.rightX, bottom, exposedEndX, bottom),
                    Line(exposedEndX, top, exposedEndX, bottom) >>))

\* left end cap, centre line and zero reference line
ReferenceLines(cv, maxDiameter, style) ==
    With2(cv.adjustedCenterY, RDiv(RMul(maxDiameter, cv.scale), Rat(2, 1)),
          LAMBDA cy, half :
        << Line(cv.leftX, RSub(cy, half), cv.leftX, RAdd(cy, half)),
           Line(RSub(cv.leftX, style.centerOverhang), cy,
                RAdd(cv.rightX, style.centerOverhang), cy),
           Line(cv.rightX, RSub(RSub(cy, half), style.zeroAbove),
                cv.rightX, RAdd(RAdd(cy, half), style.zeroBelow)) >>)

\* the drawing as canvas size and the lines of the part's geometry, in
\* document order; the thread marks are kept in ThreadRegions, and text
\* labels and dimension call-outs are left out
Scene(s, prof, maxDiameter, maxDepth, style) ==
    With(Canvas(s, maxDiameter, maxDepth, style), LAMBDA cv :
        [ svgWidth |-> cv.svgWidth, svgHeight |-> cv.svgHeight,
          rightX |-> cv.rightX, adjustedCenterY |-> cv.adjustedCenterY,
          lines |-> ProfileLines(prof, 1, cv, maxDiameter,
                        Cardinality({i \in 1..Len(s.machiningSteps) :
                                        IsDrillOp(s.machiningSteps[i])}))
                    \o ExposedLines(s, cv)
                    \o ReferenceLines(cv, maxDiameter, style) ])

-----------------------------------------------------------------------------
(* Inputs *)

Processes == {"Center Drill", "Drill", "Tap", "Bore", "Ream", "Face"}

Step(process, size, depth, threadSize) ==
    [process |-> process, size |-> size, depth |-> depth, threadSize |-> threadSize]

Thread51618 == <<"5", "/", "1", "6", "-", "1", "8">>

\* steps of saved records: holes in inches, a bore and a tap
CoreSteps ==
    { Step("Drill", <<"0", ".", "2", "5">>, <<"0", ".", "5">>, <<>>),
      Step("Drill", <<"0", ".", "5">>, <<"0", ".", "2", "5">>, <<>>),
      Step("Drill", <<"0", ".", "5">>, <<"0", ".", "2">>, <<>>),
      Step("Bore", <<"3", "/", "8">>, <<"0", ".", "5">>, <<>>),
      Step("Tap", <<>>, <<>>, Thread51618) }

\* and besides: a hole in millimetres, a partially filled drill, and a drill
\* whose depth text is malformed
StepSamples ==
    CoreSteps \cup
    { Step("Drill", <<"6", "m", "m">>, <<"2", "5", ".", "4", "m", "m">>, <<>>),
      Step("Drill", <<"0", ".", "5">>, <<>>, <<>>),
      Step("Drill", <<"0", ".", "2", "5">>, <<"1", "/", "-", "2", "m", "m">>, <<>>) }

\* diameter / length / exposedLength of a pin, a joint, a ferrule, or none
FieldSamples ==
    { [diameter |-> <<>>, length |-> <<>>, exposedLength |-> <<>>],
      [diameter |-> <<>>, length |-> <<>>, exposedLength |-> <<"1">>],
      [diameter |-> <<"1">>, length |-> <<>>, exposedLength |-> <<>>],
      [diameter |-> <<"0", ".", "5">>, length |-> <<"2">>, exposedLength |-> <<>>] }

MkSpec(steps, f) ==
    [machiningSteps |-> steps, diameter |-> f.diameter, length |-> f.length,
     exposedLength |-> f.exposedLength]

SeqsUpTo(S, n) == UNION {[1..k -> S] : k \in 0..n}

\* machiningSteps of the saved records: every sample in the shorter lists,
\* the core steps in the lists of MaxSteps steps
SavedSteps == SeqsUpTo(StepSamples, MaxSteps - 1) \cup [1..MaxSteps -> CoreSteps]

SavedSpecs == {MkSpec(steps, f) : steps \in SavedSteps, f \in FieldSamples}

Unparsed == [value |-> NaN, unit |-> "none"]

NoMetrics == [maxDiameter |-> Zero, maxDepth |-> Zero, scale |-> Zero]

\* ids: the documents of a collection and the records of local storage are
\* numbered 1, 2, ... in the order they are created; EmptyId is the id ''
EmptyId == 0

Record(id, name) == [id |-> id, name |-> name]

\* currentSpec after resetForm / handleCancel
EmptyForm == Record(EmptyId, <<>>)

NoStore ==
    [configured |-> FALSE, cloud |-> {}, local |-> <<>>, nextId |-> 1, inFlight |-> {}]

NoView ==
    [page |-> "none", specs |-> <<>>, currentSpec |-> EmptyForm, isEditing |-> FALSE,
     saving |-> FALSE, op |-> "none"]

\* a SearchFilter with no items, as it is first rendered
NoSearch ==
    [items |-> <<>>, searchTerm |-> <<>>, sortBy |-> "name", sortOrder |-> "asc",
     filtered |-> <<>>, op |-> "none"]

\* no thread pattern is being drawn
NoLoop ==
    [phase |-> "idle", tap |-> 0, x |-> Zero, threadPitch |-> Zero, rightX |-> Zero,
     scale |-> Zero, marks |-> 0]

NoScene ==
    [svgWidth |-> Zero, svgHeight |-> Zero, rightX |-> Zero, adjustedCenterY |-> Zero,
     lines |-> <<>>]

-----------------------------------------------------------------------------
(* The list card: a saved spec is shown and its drawing rendered *)

Init ==
    /\ spec \in SavedSpecs
    /\ edits = 0
    /\ drawn = FALSE
    /\ profile = <<>>
    /\ threads = <<>>
    /\ metrics = NoMetrics
    /\ scene = NoScene
    /\ store = NoStore
    /\ view = NoView
    /\ input = Undefined
    /\ dim = Unparsed
    /\ loop = NoLoop
    /\ search = NoSearch

\* the steps of order, taken from steps
RECURSIVE Permuted(_, _, _)
Permuted(steps, order, k) ==
    IF k > Len(order) THEN <<>>
    ELSE <<steps[order[k]]>> \o Permuted(steps, order, k + 1)

\* variant: the deepest-first sort is applied to spec.machiningSteps itself
StepsAfterRender_SortedInPlace(steps) ==
    With(steps, LAMBDA st :
        Permuted(st, Items(SortPairs(DepthPairs(st, Filtered(Len(st), 1..Len(st)), 1),
                                     TRUE), 1), 1))

\* spec.machiningSteps once the drawing code has run: every sort acts on an
\* array made by filter / slice / map, and the steps are only read
StepsAfterRender(steps) == steps

\* what one pass over the drawing code computes from spec in a given style
Render(style) ==
    \E maxDiameter \in {getMaterialDiameter(spec)},
       maxDepth \in {getMaxDepth(spec.machiningSteps, spec.exposedLength, spec.length)},
       prof \in {generateCrossSectionProfile(spec)} :
        /\ drawn' = TRUE
        /\ metrics' = [maxDiameter |-> maxDiameter, maxDepth |-> maxDepth,
                       scale |-> style.scale]
        /\ profile' = prof
        /\ threads' = ThreadRegions(spec, style.scale)
        /\ scene' = Scene(spec, prof, maxDiameter, maxDepth, style)
        /\ spec' = [spec EXCEPT !.machiningSteps = StepsAfterRender(@)]
        /\ UNCHANGED <<edits, input, dim, store, view, loop, search>>

\* the thumbnail: <TechnicalDrawingSVG spec={spec} isModal={false} />
TechnicalDrawingSVG ==
    /\ ~drawn
    /\ Render(DrawingStyle(FALSE))

\* a click on the thumbnail builds the printable drawing at 100 px per inch
generateSVGString ==
    /\ drawn
    /\ metrics.scale # Rat(100, 1)
    /\ Render(PrintStyle)

Next ==
    \/ TechnicalDrawingSVG
    \/ generateSVGString

Spec == Init /\ [][Next]_vars

-----------------------------------------------------------------------------
(* Properties of the profile *)

Half(x) == RDiv(x, Rat(2, 1))

RECURSIVE SumLengths(_, _)
SumLengths(p, i) ==
    IF i > Len(p) THEN Zero
    ELSE RAdd(RSub(p[i].endDepth, p[i].startDepth), SumLengths(p, i + 1))

NoFields(s) == s.diameter = <<>> /\ s.length = <<>> /\ s.exposedLength = <<>>

S_Quarter_Half == Step("Drill", <<"0", ".", "2", "5">>, <<"0", ".", "5">>, <<>>)
S_Half_Quarter == Step("Drill", <<"0", ".", "5">>, <<"0", ".", "2", "5">>, <<>>)
S_Half_Fifth == Step("Drill", <<"0", ".", "5">>, <<"0", ".", "2">>, <<>>)
S_Tap == Step("Tap", <<>>, <<>>, Thread51618)

\* C1: the segments of every rendered profile partition [0, maxDepth]: the
\* first starts at depth 0, the last ends at maxDepth, each segment ends where
\* the next starts, depths do not decrease, and the lengths sum to maxDepth.
C1_Partition ==
    drawn =>
        /\ Len(profile) >= 1
        /\ profile[1].startDepth = Zero
        /\ profile[Len(profile)].endDepth = metrics.maxDepth
        /\ \A i \in 1..(Len(profile) - 1) :
               profile[i].endDepth = profile[i + 1].startDepth
        /\ \A i \in 1..Len(profile) :
               RGe(profile[i].endDepth, profile[i].startDepth)
        /\ SumLengths(profile, 1) = metrics.maxDepth

\* the candidate holes of a spec: <<depth, radius>> in inches of its Drill
\* steps whose depth and size are present and not 0
CandidateHoles(s) ==
    {<<Inches(st.depth), Half(Inches(st.size))>> :
        st \in {s.machiningSteps[i] : i \in {j \in 1..Len(s.machiningSteps) :
                    /\ s.machiningSteps[j].process = "Drill"
                    /\ s.machiningSteps[j].depth # <<>>
                    /\ s.machiningSteps[j].size # <<>>
                    /\ Inches(s.machiningSteps[j].depth) # Zero
                    /\ Inches(s.machiningSteps[j].size) # Zero}}}

\* C2: largest hole wins.  In every segment [a, b) of a rendered profile: when
\* some candidate hole reaches depth b, the segment is a hole whose radius is
\* the largest radius of the candidates reaching b; otherwise it is solid at
\* outerRadius.  Drill 0.25 x 0.5 with Drill 0.5 x 0.25 gives radius 0.25 on
\* [0, 0.25) and radius 0.125 on [0.25, 0.5).
C2_LargestHoleWins ==
    drawn =>
        /\ \A holes \in {CandidateHoles(spec)} : \A i \in 1..Len(profile) :
               LET reach == {h \in holes : RGe(h[1], profile[i].endDepth)}
               IN  IF reach # {}
                   THEN /\ profile[i].type = "hole"
                        /\ \E h \in reach : h[2] = profile[i].radius
                        /\ \A h \in reach : RGe(profile[i].radius, h[2])
                   ELSE /\ profile[i].type = "solid"
                        /\ profile[i].radius = profile[i].outerRadius
        /\ spec.machiningSteps = <<S_Quarter_Half, S_Half_Quarter>> =>
               /\ profile[1].startDepth = Zero /\ profile[1].endDepth = Rat(1, 4)
               /\ profile[1].type = "hole" /\ profile[1].radius = Rat(1, 4)
               /\ profile[2].startDepth = Rat(1, 4) /\ profile[2].endDepth = Rat(1, 2)
               /\ profile[2].type = "hole" /\ profile[2].radius = Rat(1, 8)

\* a rendered profile in which a shallow large hole lies over a deeper small
\* one and the bar continues solid below the deepest hole
C2_Witness ==
    /\ drawn
    /\ spec.machiningSteps = <<S_Quarter_Half, S_Half_Quarter>>
    /\ spec.exposedLength # <<>>
    /\ Len(profile) >= 3
    /\ profile[1].type = "hole" /\ profile[2].type = "hole"
    /\ RGt(profile[1].radius, profile[2].radius)
    /\ profile[Len(profile)].type = "solid"

\* C3: no segment of a rendered profile has zero length.
C3_NoZeroLength ==
    drawn => \A i \in 1..Len(profile) : RLt(profile[i].startDepth, profile[i].endDepth)

-----------------------------------------------------------------------------
(* Properties of the thread regions *)

\* depth and size of a step, in inches
DepthOf(step) == Inches(step.depth)
SizeOf(step) == Inches(step.size)

RMaxOf(S) == CHOOSE x \in S : \A y \in S : RGe(x, y)

HoleSteps(steps, from, to) == {j \in from..to : IsHoleStep(steps[j])}

\* C4: for a tap with target hole T the thread region is [start, T.depth],
\* start being the largest of 0 and the depths of the Drill/Bore steps after
\* the tap whose size exceeds T.size; when start >= T.depth no thread marks are
\* drawn.  Hole 0.25 x 0.5, tap, Drill 0.5 x 0.2 gives the region [0.2, 0.5].
C4_ThreadRegion ==
    drawn =>
        /\ \A k \in 1..Len(threads) :
               threads[k].target # 0 =>
                   LET steps == spec.machiningSteps
                       T == steps[threads[k].target]
                       wider == {j \in HoleSteps(steps, threads[k].tap + 1, Len(steps)) :
                                    RGt(SizeOf(steps[j]), SizeOf(T))}
                       start == RMaxOf({Zero} \cup {DepthOf(steps[j]) : j \in wider})
                   IN  IF RGe(start, DepthOf(T))
                       THEN ~threads[k].marks
                       ELSE /\ threads[k].marks
                            /\ threads[k].threadStartDepth = start
                            /\ threads[k].threadEndDepth = DepthOf(T)
        /\ spec.machiningSteps = <<S_Quarter_Half, S_Tap, S_Half_Fifth>> =>
               /\ Len(threads) = 1 /\ threads[1].marks
               /\ threads[1].threadStartDepth = Rat(1, 5)
               /\ threads[1].threadEndDepth = Rat(1, 2)

\* C5: each tap's target hole is chosen among the Drill/Bore steps before that
\* tap: the deepest one and, among several of that depth, the one closest
\* before the tap; a tap without a preceding Drill/Bore step gets no region.
C5_TargetHole ==
    drawn =>
        \A k \in 1..Len(threads) :
            LET steps == spec.machiningSteps
                prior == HoleSteps(steps, 1, threads[k].tap - 1)
                deepest == {j \in prior : \A h \in prior : RGe(DepthOf(steps[j]), DepthOf(steps[h]))}
            IN  IF prior = {}
                THEN threads[k].target = 0 /\ ~threads[k].marks
                ELSE steps[threads[k].target] =
                         steps[CHOOSE j \in deepest : \A h \in deepest : j >= h]

\* C6: thread geometry uses inch-normalized values: the region of a tap ends
\* at convertToInches(parseDimension(depth text)) of its target hole and its
\* marks are drawn at convertToInches(parseDimension(size text)) / 2.
C6_ThreadInches ==
    drawn =>
        \A k \in 1..Len(threads) :
            threads[k].target # 0 =>
                LET T == spec.machiningSteps[threads[k].target]
                IN  /\ threads[k].threadEndDepth = Inches(T.depth)
                    /\ threads[k].tapRadius = RMul(Half(Inches(T.size)), metrics.scale)

DefaultDepth == Rat(1, 1)
DefaultRadius == Rat(1, 4)

\* C7: a spec without machining steps and without dimension fields renders as
\* one solid segment [0, defaultDepth] at defaultRadius (1 in, 0.25 in).
C7_DefaultBar ==
    (drawn /\ spec.machiningSteps = <<>> /\ NoFields(spec)) =>
        profile = <<[startDepth |-> Zero, endDepth |-> DefaultDepth,
                     radius |-> DefaultRadius, type |-> "solid",
                     outerRadius |-> DefaultRadius]>>

WithoutStep(s, i) ==
    [s EXCEPT !.machiningSteps =
        SubSeq(s.machiningSteps, 1, i - 1) \o SubSeq(s.machiningSteps, i + 1, Len(s.machiningSteps))]

\* C8: a Drill step whose depth or size is absent or parses to 0 is excluded
\* entirely: segments, outerRadius and maxDepth are those of the same spec
\* without that step.
C8_ZeroStepExcluded ==
    drawn =>
        \A i \in 1..Len(spec.machiningSteps) :
            LET step == spec.machiningSteps[i]
            IN  (/\ step.process = "Drill"
                 /\ \/ step.depth = <<>> \/ Inches(step.depth) = Zero
                    \/ step.size = <<>> \/ Inches(step.size) = Zero) =>
                    /\ profile = generateCrossSectionProfile(WithoutStep(spec, i))
                    /\ metrics.maxDepth =
                           getMaxDepth(WithoutStep(spec, i).machiningSteps,
                                       spec.exposedLength, spec.length)

-----------------------------------------------------------------------------
(* The dimension parser on its own: one call of parseDimensionWithUnit *)

Alphabet == {"0", "1", "2", "5", "/", ".", "-", " ", "m", "c", "a"}

\* texts a user typed in full: metric and mixed-case suffixes, a fraction
\* with a zero denominator, plain words
TextSamples ==
    { <<"2", "5", ".", "4", "m", "m">>, <<"2", ".", "5", "4", "c", "m">>,
      <<"2", "5", ".", "4", "M", "M">>, <<"1", "/", "-", "2", "m", "m">>,
      <<"1", "2", "/", "0">>, <<"3", "/", "1", "6">>, <<"0", ".", "3", "7", "5">> }

ParseInputs ==
    {Str(t) : t \in SeqsUpTo(Alphabet, MaxLen) \cup TextSamples}
        \cup {Num(Zero), Num(Rat(1, 2)), Num(Rat(3, 1)), Num(Rat(-1, 1)), Undefined}

EmptySpec ==
    [machiningSteps |-> <<>>, diameter |-> <<>>, length |-> <<>>, exposedLength |-> <<>>]

InitParse ==
    /\ input \in ParseInputs
    /\ dim = Unparsed
    /\ spec = EmptySpec
    /\ edits = 0
    /\ drawn = FALSE
    /\ profile = <<>>
    /\ threads = <<>>
    /\ metrics = NoMetrics
    /\ scene = NoScene
    /\ store = NoStore
    /\ view = NoView
    /\ loop = NoLoop
    /\ search = NoSearch

ParseDimension ==
    /\ dim = Unparsed
    /\ dim' = parseDimensionWithUnit(input)
    /\ UNCHANGED <<input, spec, edits, drawn, profile, threads, metrics, scene, store, view,
                   loop, search>>

NextParse == ParseDimension

SpecParse == InitParse /\ [][NextParse]_vars

\* a part of a fraction text parses: it is a complete decimal numeral
IsNumeral(t) == Trim(t) # <<>> /\ ScanDecimal(Trim(t)) = Len(Trim(t))

HasDigit(t) == \E i \in 1..Len(t) : IsDigit(t[i])

\* text of the form a/b with exactly one "/"
IsFractionText(t) == Len(SelectSeq(t, LAMBDA c : c = "/")) = 1

\* C9: parseDimension degrades to zero.  For text "a/b" it returns a/b when
\* both parts parse and b is not 0, and 0 when b is 0 or a part fails to
\* parse; empty text, text without any numeral and absent input give 0.
C9_DegradesToZero ==
    dim # Unparsed =>
        /\ input.type = "undefined" => dim.value = Zero
        /\ (input.type = "string" /\ ~HasDigit(input.s)) => dim.value = Zero
        /\ (input.type = "string" /\ IsFractionText(input.s)
               /\ ~Includes(input.s, <<"m", "m">>) /\ ~Includes(input.s, <<"c", "m">>)) =>
               LET a == SplitSlash(input.s)[1]
                   b == SplitSlash(input.s)[2]
               IN  IF IsNumeral(a) /\ IsNumeral(b) /\ DecimalValue(Trim(b)) # Zero
                   THEN dim.value = RDiv(DecimalValue(Trim(a)), DecimalValue(Trim(b)))
                   ELSE dim.value = Zero

-----------------------------------------------------------------------------
(* The form: a spec is edited with MachiningStepsEditor and redrawn *)

EditTexts == {<<>>, <<"0", ".", "2", "5">>, <<"0", ".", "5">>, <<"1">>}

ThreadSizes == {<<>>, Thread51618}

\* currentSpec after resetForm (empty) or handleEdit (a saved record)
FormSpecs == {s \in SavedSpecs : Len(s.machiningSteps) <= 1}

InitEdit ==
    /\ spec \in FormSpecs
    /\ edits = 0
    /\ drawn = FALSE
    /\ profile = <<>>
    /\ threads = <<>>
    /\ metrics = NoMetrics
    /\ scene = NoScene
    /\ store = NoStore
    /\ view = NoView
    /\ input = Undefined
    /\ dim = Unparsed
    /\ loop = NoLoop
    /\ search = NoSearch

\* onUpdate(updatedSpec): the form holds the new spec; its drawing is stale
OnUpdate(updatedSpec) ==
    /\ edits < MaxEdits
    /\ spec' = updatedSpec
    /\ edits' = edits + 1
    /\ drawn' = FALSE
    /\ UNCHANGED <<profile, threads, metrics, scene, input, dim, store, view, loop, search>>

addMachiningStep ==
    /\ Len(spec.machiningSteps) < MaxSteps
    /\ OnUpdate([spec EXCEPT !.machiningSteps =
                    Append(@, Step("Center Drill", <<>>, <<>>, <<>>))])

updateMachiningStep(index, field, value) ==
    OnUpdate([spec EXCEPT !.machiningSteps[index][field] = value])

\* the process select of step index
UpdateProcess ==
    \E index \in 1..Len(spec.machiningSteps), value \in Processes :
        updateMachiningStep(index, "process", value)

\* the thread-size select, shown for a Tap
UpdateThreadSize ==
    \E index \in 1..Len(spec.machiningSteps), value \in ThreadSizes :
        /\ spec.machiningSteps[index].process = "Tap"
        /\ updateMachiningStep(index, "threadSize", value)

\* the size and depth inputs, shown for every process but Center Drill and Tap
UpdateSizeOrDepth ==
    \E index \in 1..Len(spec.machiningSteps), field \in {"size", "depth"},
       value \in EditTexts :
        /\ spec.machiningSteps[index].process \notin {"Center Drill", "Tap"}
        /\ updateMachiningStep(index, field, value)

removeMachiningStep ==
    \E index \in 1..Len(spec.machiningSteps) :
        OnUpdate(WithoutStep(spec, index))

\* the diameter / length / exposedLength inputs of the form pages
setCurrentSpec ==
    \E field \in {"diameter", "length", "exposedLength"}, value \in EditTexts :
        OnUpdate([spec EXCEPT ![field] = value])

\* the form shows the drawing once there is a step or a dimension field
FormDrawing ==
    /\ \/ Len(spec.machiningSteps) > 0
       \/ spec.exposedLength # <<>>
       \/ spec.diameter # <<>>
    /\ TechnicalDrawingSVG

NextEdit ==
    \/ addMachiningStep
    \/ UpdateProcess
    \/ UpdateThreadSize
    \/ UpdateSizeOrDepth
    \/ removeMachiningStep
    \/ setCurrentSpec
    \/ FormDrawing

SpecEdit == InitEdit /\ [][NextEdit]_vars

\* the largest of the Drill depths, the exposed length and the stock length
DrillMaxDepth(s) ==
    RMaxOf({Zero}
        \cup {Inches(s.machiningSteps[i].depth) :
                 i \in {j \in 1..Len(s.machiningSteps) :
                           s.machiningSteps[j].process = "Drill"}}
        \cup {Inches(s.exposedLength), Inches(s.length)})

\* the spec with size and depth cleared on every step that is not a Drill
OnlyDrillFields(s) ==
    [s EXCEPT !.machiningSteps =
        [i \in 1..Len(s.machiningSteps) |->
            IF s.machiningSteps[i].process = "Drill" THEN s.machiningSteps[i]
            ELSE [s.machiningSteps[i] EXCEPT !.size = <<>>, !.depth = <<>>]]]

\* C10: drawing metrics depend only on fields meaningful for a step's process:
\* maxDepth is the largest of the Drill depths, the exposed length and the
\* stock length, and a size or depth left on a step of another process changes
\* neither maxDepth nor maxDiameter nor the profile.
C10_OnlyMeaningfulFields ==
    drawn =>
        /\ metrics.maxDepth = DrillMaxDepth(spec)
        /\ metrics.maxDepth = getMaxDepth(OnlyDrillFields(spec).machiningSteps,
                                          spec.exposedLength, spec.length)
        /\ metrics.maxDiameter = getMaterialDiameter(OnlyDrillFields(spec))
        /\ profile = generateCrossSectionProfile(OnlyDrillFields(spec))

-----------------------------------------------------------------------------
(* Properties of the working diameter *)

\* the largest size among the steps, in inches (0 when no step has a size)
LargestMachinedDiameter(s) ==
    RMaxOf({Zero} \cup {Inches(s.machiningSteps[i].size) :
                           i \in {j \in 1..Len(s.machiningSteps) :
                                     s.machiningSteps[j].size # <<>>}})

\* C11: the working (stock) diameter is the explicit material diameter in
\* inches when the spec has one, and otherwise exactly 1.25 times the largest
\* machined diameter among the steps; outerRadius of every segment is half of
\* the working diameter.
C11_WorkingDiameter ==
    drawn =>
        /\ metrics.maxDiameter =
               IF spec.diameter # <<>> THEN Inches(spec.diameter)
               ELSE RMul(Rat(5, 4), LargestMachinedDiameter(spec))
        /\ \A i \in 1..Len(profile) :
               profile[i].outerRadius = Half(metrics.maxDiameter)

\* a drilled part without a diameter field: 0.5 in machined, 0.625 in stock
C11_Witness ==
    /\ drawn
    /\ spec.diameter = <<>>
    /\ spec.machiningSteps = <<S_Half_Quarter>>
    /\ metrics.maxDiameter = Rat(5, 8)
    /\ profile[1].type = "hole"
    /\ profile[1].outerRadius = Rat(5, 16)

-----------------------------------------------------------------------------
(* Properties of the parsed dimension *)

\* C12: every dimension returned by the parser has value >= 0, for text
\* (a leading minus sign included) and for numbers (negative ones included).
C12_NonNegative ==
    dim # Unparsed => RGe(dim.value, Zero)

EndsWith(t, suffix) ==
    Len(t) >= Len(suffix) /\ SubSeq(t, Len(t) - Len(suffix) + 1, Len(t)) = suffix

DropSuffix(t, suffix) == SubSeq(t, 1, Len(t) - Len(suffix))

\* C13: a text is millimetres (centimetres) exactly when, trimmed and in
\* lower case, it ends with mm (cm); the suffix is stripped and the rest
\* parsed; the inch value divides by 25.4 (2.54); "25.4mm" and "2.54cm" are
\* 1 inch and a number n is n inches.
C13_UnitSuffix ==
    dim # Unparsed =>
        /\ input.type = "string" =>
               LET t == ToLowerCase(Trim(input.s))
                   unit == IF EndsWith(t, <<"m", "m">>) THEN "mm"
                           ELSE IF EndsWith(t, <<"c", "m">>) THEN "cm"
                           ELSE "inches"
                   rest == IF unit = "inches" THEN t ELSE Trim(DropSuffix(t, <<"m", "m">>))
               IN  /\ dim.unit = unit
                   /\ dim.value = parseValue(Str(rest))
                   /\ convertToInches(dim) =
                          CASE unit = "mm" -> RDiv(dim.value, Rat(254, 10))
                            [] unit = "cm" -> RDiv(dim.value, Rat(254, 100))
                            [] OTHER -> dim.value
        /\ input = Str(<<"2", "5", ".", "4", "m", "m">>) => convertToInches(dim) = Rat(1, 1)
        /\ input = Str(<<"2", ".", "5", "4", "c", "m">>) => convertToInches(dim) = Rat(1, 1)
        /\ input.type = "number" => convertToInches(dim) = input.n

-----------------------------------------------------------------------------
(* Properties of the drawn lines *)

\* pixel position of a depth and pixel size of a radius in the last render
XOf(depth) == RSub(scene.rightX, RMul(depth, metrics.scale))
PixelsOf(radius) == RMul(radius, metrics.scale)

\* a vertical line of non-zero length at x
IsVerticalAt(l, x) == l.x1 = x /\ l.x2 = x /\ l.y1 # l.y2

\* both ends of l are at most r pixels from the centre line
Within(l, r) ==
    \A y \in {l.y1, l.y2} :
        /\ RGe(y, RSub(scene.adjustedCenterY, r))
        /\ RGe(RAdd(scene.adjustedCenterY, r), y)

\* positions in scene.lines of the end-face lines: vertical, at depth 0, on
\* the face of the bar
EndFaceLines ==
    {k \in 1..Len(scene.lines) :
        /\ IsVerticalAt(scene.lines[k], XOf(Zero))
        /\ Within(scene.lines[k], PixelsOf(Half(metrics.maxDiameter)))}

\* positions of the bottom-cap lines of hole segment i: vertical, at its end
\* depth, inside the hole
BottomCapLines(i) ==
    {k \in 1..Len(scene.lines) :
        /\ IsVerticalAt(scene.lines[k], XOf(profile[i].endDepth))
        /\ Within(scene.lines[k], PixelsOf(profile[i].radius))}

\* C14: the scene has an end-face line at depth 0 exactly when the first
\* segment is a hole, and exactly one bottom-cap line at the end depth of each
\* hole that does not continue into a deeper hole (as in Drill 3/8 x 1 with
\* Tap 5/16-18, whose single hole ends at depth 1).  Stated for parts of
\* some depth, where the left end cap does not lie at depth 0.
C14_EndFaceAndBottomCap ==
    (drawn /\ Len(profile) >= 1 /\ RGt(metrics.maxDepth, Zero)) =>
        /\ (EndFaceLines # {}) <=> (profile[1].type = "hole")
        /\ \A i \in 1..Len(profile) :
               (/\ profile[i].type = "hole"
                /\ i = Len(profile) \/ profile[i + 1].type # "hole") =>
                   Cardinality(BottomCapLines(i)) = 1

\* a shoulder line at the boundary of segments i and i + 1: vertical, at the
\* boundary depth, joining the two radii above or below the centre line
HasShoulder(i) ==
    \E k \in 1..Len(scene.lines), side \in {-1, 1} :
        /\ IsVerticalAt(scene.lines[k], XOf(profile[i].endDepth))
        /\ {scene.lines[k].y1, scene.lines[k].y2} =
               {RAdd(scene.adjustedCenterY, RMul(Rat(side, 1), PixelsOf(profile[i].radius))),
                RAdd(scene.adjustedCenterY, RMul(Rat(side, 1), PixelsOf(profile[i + 1].radius)))}

\* the Drill steps of s that are candidate holes: depth and size present and
\* not 0
QualifyingDrills(s) ==
    {i \in 1..Len(s.machiningSteps) :
        /\ s.machiningSteps[i].process = "Drill"
        /\ s.machiningSteps[i].depth # <<>>
        /\ s.machiningSteps[i].size # <<>>
        /\ Inches(s.machiningSteps[i].depth) # Zero
        /\ Inches(s.machiningSteps[i].size) # Zero}

\* C15: a shoulder line is drawn at the boundary of two adjacent segments
\* exactly when both are holes of different radii and the spec has more than
\* one qualifying Drill step; so a part with a single drilled hole has no
\* shoulder and none is drawn between a hole and a solid segment.
C15_Shoulders ==
    drawn =>
        \A i \in 1..(Len(profile) - 1) :
            HasShoulder(i) <=>
                /\ profile[i].type = "hole" /\ profile[i + 1].type = "hole"
                /\ profile[i].radius # profile[i + 1].radius
                /\ Cardinality(QualifyingDrills(spec)) > 1

\* two holes of different radii meet at a shoulder and the deeper one meets
\* the solid bar without one
C15_Witness ==
    /\ drawn
    /\ spec.machiningSteps = <<S_Quarter_Half, S_Half_Quarter>>
    /\ Len(profile) >= 3
    /\ HasShoulder(1)
    /\ profile[2].type = "hole" /\ profile[3].type = "solid"
    /\ ~HasShoulder(2)

-----------------------------------------------------------------------------
(* Properties of rendering as a whole *)

-----------------------------------------------------------------------------
(* The record pages: records are saved, listed, edited and deleted *)

Pages == {"pins", "joints", "modifications", "ferrules"}

\* names typed into the form: none, a blank, two proper names
Names == {<<>>, <<" ">>, <<"A">>, <<"B">>}

CharCode(c) ==
    CASE c = " " -> 32 [] c = "(" -> 40 [] c = ")" -> 41 [] c = "A" -> 65 [] c = "B" -> 66
      [] c = "C" -> 67 [] c = "o" -> 111 [] c = "p" -> 112 [] c = "y" -> 121 [] OTHER -> 0

\* a < b as strings
RECURSIVE LexLess(_, _, _)
LexLess(a, b, i) ==
    IF i > Len(b) THEN FALSE
    ELSE IF i > Len(a) THEN TRUE
    ELSE IF CharCode(a[i]) # CharCode(b[i]) THEN CharCode(a[i]) < CharCode(b[i])
    ELSE LexLess(a, b, i + 1)

\* a document: the id assigned by the store and the fields written to it
Doc(docId, data) == [docId |-> docId, data |-> data]

DocBefore(d, e) ==
    \/ LexLess(d.data.name, e.data.name, 1)
    \/ d.data.name = e.data.name /\ d.docId < e.docId

\* query(collection, orderBy('name')): the documents in order of name
RECURSIVE Ordered(_)
Ordered(docs) ==
    IF docs = {} THEN <<>>
    ELSE With(CHOOSE d \in docs : \A e \in docs \ {d} : DocBefore(d, e), LAMBDA first :
             <<first>> \o Ordered(docs \ {first}))

\* { id: doc.id, ...doc.data() }: a field id of the document replaces doc.id
Listed(doc) ==
    Record(IF doc.data.hasId THEN doc.data.id ELSE doc.docId, doc.data.name)

RECURSIVE ListedAll(_, _)
ListedAll(docs, i) ==
    IF i > Len(docs) THEN <<>> ELSE <<Listed(docs[i])>> \o ListedAll(docs, i + 1)

\* the list built from querySnapshot
Listing(cloud) == With(Ordered(cloud), LAMBDA docs : ListedAll(docs, 1))

\* specs.map(spec => spec.id === currentSpec.id ? currentSpec : spec)
RECURSIVE Replaced(_, _, _)
Replaced(specs, current, i) ==
    IF i > Len(specs) THEN <<>>
    ELSE <<IF specs[i].id = current.id THEN current ELSE specs[i]>>
             \o Replaced(specs, current, i + 1)

\* specs.filter(spec => spec.id !== id)
Without(specs, id) == SelectSeq(specs, LAMBDA r : r.id # id)

\* the list after a local save: the edited record replaced, or a new record
\* with a fresh id appended
LocallySaved(specs, current, nextId) ==
    IF current.id # EmptyId THEN Replaced(specs, current, 1)
    ELSE Append(specs, Record(nextId, current.name))

\* the id counter after a save of current outside the cloud
NextLocalId(current, nextId) == IF current.id # EmptyId THEN nextId ELSE nextId + 1

InitStore ==
    /\ \E page \in Pages, configured \in BOOLEAN :
           /\ store = [NoStore EXCEPT !.configured = configured]
           /\ view = [NoView EXCEPT !.page = page, !.op = "mount"]
    /\ spec = EmptySpec
    /\ edits = 0
    /\ drawn = FALSE
    /\ profile = <<>>
    /\ threads = <<>>
    /\ metrics = NoMetrics
    /\ scene = NoScene
    /\ input = Undefined
    /\ dim = Unparsed
    /\ loop = NoLoop
    /\ search = NoSearch

Unrendered ==
    UNCHANGED <<spec, edits, drawn, profile, threads, metrics, scene, input, dim, loop, search>>

\* the name field of the form
setName ==
    /\ \E name \in Names \ {view.currentSpec.name} :
           view' = [view EXCEPT !.currentSpec.name = name, !.op = "onChange"]
    /\ UNCHANGED store
    /\ Unrendered

\* Edit on a listed record
handleEdit ==
    /\ \E i \in 1..Len(view.specs) :
           view' = [view EXCEPT !.currentSpec = view.specs[i], !.isEditing = TRUE,
                                !.op = "handleEdit"]
    /\ UNCHANGED store
    /\ Unrendered

\* what fetchPins hands to setSpecs
PinsLoaded(st) == IF ~st.configured THEN st.local ELSE Listing(st.cloud)

\* the periodic refresh of the pins page
fetchPins ==
    /\ view.page = "pins"
    /\ view' = [view EXCEPT !.specs = PinsLoaded(store), !.op = "fetchPins"]
    /\ UNCHANGED store
    /\ Unrendered

\* saveToLocalStorage of the pins page
saveToLocalStorage ==
    /\ store' = [store EXCEPT
                    !.local = LocallySaved(view.specs, view.currentSpec, store.nextId),
                    !.nextId = NextLocalId(view.currentSpec, store.nextId)]
    /\ view' = [view EXCEPT
                    !.specs = LocallySaved(view.specs, view.currentSpec, store.nextId),
                    !.currentSpec = EmptyForm, !.isEditing = FALSE, !.op = "handleSave"]

\* the fields the pins page writes: all of currentSpec, its id included
PinData(current) == [hasId |-> TRUE, id |-> current.id, name |-> current.name]

\* the fields the joints and modifications pages write: id is not one of them
JointData(current) == [hasId |-> FALSE, id |-> EmptyId, name |-> current.name]

\* updateDoc(doc(db, collection, id), data)
Updated(cloud, id, data) ==
    {IF d.docId = id THEN Doc(id, data) ELSE d : d \in cloud}

\* the save ends by fetching the list and resetting the form
SavedToCloud(cloud) ==
    /\ store' = [store EXCEPT !.cloud = cloud,
                              !.nextId = IF cloud = store.cloud THEN @ ELSE @ + 1]
    /\ view' = [view EXCEPT !.specs = Listing(cloud), !.currentSpec = EmptyForm,
                            !.isEditing = FALSE, !.op = "handleSave"]

\* a handler that returns after an alert or an error message
Refused(op) ==
    /\ view' = [view EXCEPT !.op = op]
    /\ UNCHANGED store

PinsPage_handleSave ==
    /\ view.page = "pins"
    /\ store.nextId <= MaxRecords
    /\ IF Trim(view.currentSpec.name) = <<>> THEN Refused("handleSave")
       ELSE IF ~store.configured THEN saveToLocalStorage
       ELSE IF view.currentSpec.id # EmptyId
       THEN IF \E d \in store.cloud : d.docId = view.currentSpec.id
            THEN SavedToCloud(Updated(store.cloud, view.currentSpec.id,
                                      PinData(view.currentSpec)))
            ELSE saveToLocalStorage
       ELSE SavedToCloud(store.cloud \cup {Doc(store.nextId, PinData(view.currentSpec))})
    /\ Unrendered

\* Delete on a listed pin, confirmed
PinsPage_handleDelete ==
    /\ view.page = "pins"
    /\ \E i \in 1..Len(view.specs) :
           \E id \in {view.specs[i].id} :
               IF id = EmptyId THEN Refused("handleDelete")
               ELSE IF store.configured
               THEN \E cloud \in {{d \in store.cloud : d.docId # id}} :
                        /\ store' = [store EXCEPT !.cloud = cloud]
                        /\ view' = [view EXCEPT !.specs = Listing(cloud),
                                                !.op = "handleDelete"]
               ELSE /\ store' = [store EXCEPT !.local = Without(view.specs, id)]
                    /\ view' = [view EXCEPT !.specs = Without(view.specs, id),
                                            !.op = "handleDelete"]
    /\ Unrendered

\* fetchJoints; fetchModifications is the same code on its own collection
fetchJoints ==
    /\ view.page \in {"joints", "modifications"}
    /\ view' = [view EXCEPT !.specs = IF store.configured THEN Listing(store.cloud) ELSE @,
                            !.op = "fetchJoints"]
    /\ UNCHANGED store
    /\ Unrendered

\* handleSave of JointsPage and of ModificationsPage
JointsPage_handleSave ==
    /\ view.page \in {"joints", "modifications"}
    /\ store.nextId <= MaxRecords
    /\ IF Trim(view.currentSpec.name) = <<>> THEN Refused("handleSave")
       ELSE IF ~store.configured THEN Refused("handleSave")
       ELSE IF view.currentSpec.id # EmptyId
       THEN IF \E d \in store.cloud : d.docId = view.currentSpec.id
            THEN SavedToCloud(Updated(store.cloud, view.currentSpec.id,
                                      JointData(view.currentSpec)))
            ELSE Refused("handleSave")
       ELSE SavedToCloud(store.cloud \cup {Doc(store.nextId, JointData(view.currentSpec))})
    /\ Unrendered

\* handleDelete of JointsPage and of ModificationsPage, confirmed
JointsPage_handleDelete ==
    /\ view.page \in {"joints", "modifications"}
    /\ \E i \in 1..Len(view.specs) :
           IF ~store.configured THEN Refused("handleDelete")
           ELSE \E cloud \in {{d \in store.cloud : d.docId # view.specs[i].id}} :
                    /\ store' = [store EXCEPT !.cloud = cloud]
                    /\ view' = [view EXCEPT !.specs = Listing(cloud), !.op = "handleDelete"]
    /\ Unrendered

\* the effect of the ferrules page that stores a non-empty list
FerrulesStored(specs, local) == IF Len(specs) > 0 THEN specs ELSE local

\* handleSave of FerrulesPage, followed by its storage effect
FerrulesPage_handleSave ==
    /\ view.page = "ferrules"
    /\ store.nextId <= MaxRecords
    /\ \E specs \in {LocallySaved(view.specs, view.currentSpec, store.nextId)} :
           /\ view' = [view EXCEPT !.specs = specs, !.currentSpec = EmptyForm,
                                   !.isEditing = FALSE, !.op = "handleSave"]
           /\ store' = [store EXCEPT !.local = FerrulesStored(specs, @),
                                     !.nextId = NextLocalId(view.currentSpec, @)]
    /\ Unrendered

\* handleDelete of FerrulesPage, confirmed, followed by its storage effect
FerrulesPage_handleDelete ==
    /\ view.page = "ferrules"
    /\ \E i \in 1..Len(view.specs) :
           \E specs \in {Without(view.specs, view.specs[i].id)} :
               /\ view' = [view EXCEPT !.specs = specs, !.op = "handleDelete"]
               /\ store' = [store EXCEPT !.local = FerrulesStored(specs, @)]
    /\ Unrendered

\* the page is loaded again: the state starts over and the mount effect reads
\* 'ferrule-specs'; the storage effect then runs on the list it read
FerrulesPage_mount ==
    /\ view.page = "ferrules"
    /\ view' = [NoView EXCEPT !.page = "ferrules", !.specs = store.local, !.op = "mount"]
    /\ store' = [store EXCEPT !.local = FerrulesStored(store.local, @)]
    /\ Unrendered

NextStore ==
    \/ setName
    \/ handleEdit
    \/ fetchPins
    \/ PinsPage_handleSave
    \/ PinsPage_handleDelete
    \/ fetchJoints
    \/ JointsPage_handleSave
    \/ JointsPage_handleDelete
    \/ FerrulesPage_handleSave
    \/ FerrulesPage_handleDelete
    \/ FerrulesPage_mount

SpecStore == InitStore /\ [][NextStore]_vars

\* a record of that name is in the list
Holds(list, name) == \E i \in 1..Len(list) : list[i].name = name

\* C18: on the pins, joints and modifications pages, when the cloud store is
\* not configured, Save of a record with a non-blank name stores it in local
\* storage and the record then appears in the displayed list.
C18_LocalFallback ==
    [][(/\ view'.op = "handleSave"
        /\ view.page \in {"pins", "joints", "modifications"}
        /\ ~store.configured
        /\ Trim(view.currentSpec.name) # <<>>) =>
           /\ Holds(store'.local, view.currentSpec.name)
           /\ Holds(view'.specs, view.currentSpec.name)]_vars

\* C19: on the pins page with the cloud store, every listed pin carries the
\* non-empty id of its document; Save of an edited pin leaves the number of
\* documents unchanged and Delete of a listed pin removes a document.
C19_ListedIdIsDocumentId ==
    [][(view.page = "pins" /\ store.configured) =>
           /\ \A i \in 1..Len(view'.specs) :
                  /\ view'.specs[i].id # EmptyId
                  /\ \E d \in store'.cloud : d.docId = view'.specs[i].id
           /\ (view'.op = "handleSave" /\ view.isEditing
                  /\ Trim(view.currentSpec.name) # <<>>) =>
                  Cardinality(store'.cloud) = Cardinality(store.cloud)
           /\ view'.op = "handleDelete" =>
                  Cardinality(store'.cloud) = Cardinality(store.cloud) - 1]_vars

\* C20: on every record page, Save of a record whose name is empty or blank
\* writes neither to the cloud store nor to local storage and leaves the
\* displayed list unchanged.
C20_NameRequired ==
    [][(view'.op = "handleSave" /\ Trim(view.currentSpec.name) = <<>>) =>
           /\ store'.cloud = store.cloud
           /\ store'.local = store.local
           /\ view'.specs = view.specs]_vars

-----------------------------------------------------------------------------
(* Properties of the profile and the threads together *)

\* the segments of the profile that share more than a point with [from, to]
SegmentsOver(from, to) ==
    {i \in 1..Len(profile) :
        RLt(profile[i].startDepth, to) /\ RGt(profile[i].endDepth, from)}

\* C22: thread marks lie inside the hole they belong to.  For every tap whose
\* thread region is drawn, the region ends at or before maxDepth and every
\* segment it runs over is a hole of the target hole's radius.
C22_ThreadsInsideHole ==
    drawn =>
        \A k \in 1..Len(threads) :
            threads[k].marks =>
                /\ RGe(metrics.maxDepth, threads[k].threadEndDepth)
                /\ \A i \in SegmentsOver(threads[k].threadStartDepth,
                                         threads[k].threadEndDepth) :
                       /\ profile[i].type = "hole"
                       /\ profile[i].radius =
                              Half(Inches(spec.machiningSteps[threads[k].target].size))

\* C23: along increasing depth the profile is monotone: a solid segment is
\* followed by solid segments only, and of two successive hole segments the
\* deeper one is not wider.
C23_Monotone ==
    drawn =>
        \A i \in 1..(Len(profile) - 1) :
            /\ profile[i].type = "solid" => profile[i + 1].type = "solid"
            /\ (profile[i].type = "hole" /\ profile[i + 1].type = "hole") =>
                   RGe(profile[i].radius, profile[i + 1].radius)

\* a wide shallow hole, a narrower deeper one, then the solid bar
C23_Witness ==
    /\ drawn
    /\ spec.machiningSteps = <<S_Quarter_Half, S_Half_Fifth>>
    /\ spec.exposedLength # <<>>
    /\ Len(profile) = 3
    /\ profile[1].type = "hole" /\ profile[1].radius = Rat(1, 4)
    /\ profile[2].type = "hole" /\ profile[2].radius = Rat(1, 8)
    /\ profile[3].type = "solid"

\* C24: every hole fits inside the stock: the radius of a hole segment is at
\* most its outerRadius, with an explicit diameter and with the allowance.
C24_HoleInsideStock ==
    drawn =>
        \A i \in 1..Len(profile) :
            profile[i].type = "hole" => RGe(profile[i].outerRadius, profile[i].radius)

-----------------------------------------------------------------------------
(* The thread pattern of a render, one iteration of its loops at a time *)

InfinityMm == InfinityLiteral \o <<" ", "m", "m">>

\* machining steps with a tap: tapped holes with depths in inches, in
\* millimetres, cut back by a later hole, and with depth texts that are not
\* numerals of a finite number
ThreadSteps ==
    { <<S_Tap>>,
      <<S_Quarter_Half, S_Tap>>,
      <<S_Quarter_Half, S_Tap, S_Half_Fifth>>,
      <<Step("Bore", <<"3", "/", "8">>, <<"0", ".", "5">>, <<>>), S_Tap, S_Half_Quarter, S_Tap>>,
      <<Step("Drill", <<"0", ".", "2", "5">>, <<"2", "m", "m">>, <<>>), S_Tap>>,
      <<Step("Drill", <<"0", ".", "2", "5">>, <<"1", "/", "0">>, <<>>), S_Tap>>,
      <<Step("Drill", <<"0", ".", "2", "5">>, InfinityLiteral, <<>>), S_Tap>>,
      <<Step("Drill", <<"0", ".", "2", "5">>, InfinityMm, <<>>), S_Tap>> }

ThreadSpecs == {MkSpec(steps, f) : steps \in ThreadSteps, f \in FieldSamples}

InitThreads ==
    /\ spec \in ThreadSpecs
    /\ edits = 0
    /\ drawn = FALSE
    /\ profile = <<>>
    /\ threads = <<>>
    /\ metrics = NoMetrics
    /\ scene = NoScene
    /\ store = NoStore
    /\ view = NoView
    /\ input = Undefined
    /\ dim = Unparsed
    /\ loop = NoLoop
    /\ search = NoSearch

\* threadPitch of the drawing component
threadPitch(isModal) == IF isModal THEN Rat(5, 1) ELSE Rat(3, 1)

\* threadPitch of the print string
PrintThreadPitch == Rat(5, 1)

threadStartX(region, l) == RSub(l.rightX, RMul(region.threadStartDepth, l.scale))

threadEndX(region, l) == RSub(l.rightX, RMul(region.threadEndDepth, l.scale))

\* tapOps.forEach from the k-th tap on: taps that return before the loop are
\* passed over, the next one starts its loop at threadStartX
RECURSIVE tapOps_forEach(_, _, _)
tapOps_forEach(regions, k, l) ==
    IF k > Len(regions) THEN [l EXCEPT !.phase = "done", !.tap = 0, !.x = Zero]
    ELSE IF ~regions[k].marks THEN tapOps_forEach(regions, k + 1, l)
    ELSE [l EXCEPT !.phase = "loop", !.tap = k, !.x = threadStartX(regions[k], l)]

\* the thread visualisation up to the first loop
ThreadVisualization(style, pitch) ==
    /\ loop.phase = "idle"
    /\ \E maxDiameter \in {getMaterialDiameter(spec)},
          maxDepth \in {getMaxDepth(spec.machiningSteps, spec.exposedLength, spec.length)},
          regions \in {ThreadRegions(spec, style.scale)} :
           /\ metrics' = [maxDiameter |-> maxDiameter, maxDepth |-> maxDepth,
                          scale |-> style.scale]
           /\ threads' = regions
           /\ loop' = tapOps_forEach(regions, 1,
                          [NoLoop EXCEPT !.threadPitch = pitch, !.scale = style.scale,
                               !.rightX = Canvas(spec, maxDiameter, maxDepth, style).rightX])
    /\ UNCHANGED <<spec, edits, drawn, profile, scene, input, dim, store, view, search>>

TechnicalDrawingSVG_threads == ThreadVisualization(DrawingStyle(FALSE), threadPitch(FALSE))

generateSVGString_threads == ThreadVisualization(PrintStyle, PrintThreadPitch)

\* one iteration of "for (let x = threadStartX; x > threadEndX; x -= threadPitch)";
\* x is followed down to MaxPixels below the canvas origin
threadLines_push ==
    /\ loop.phase = "loop"
    /\ RGt(loop.x, threadEndX(threads[loop.tap], loop))
    /\ RGe(RSub(loop.x, loop.threadPitch), Rat(0 - MaxPixels, 1))
    /\ loop' = [loop EXCEPT !.x = RSub(@, loop.threadPitch), !.marks = @ + 1]
    /\ UNCHANGED <<spec, edits, drawn, profile, threads, metrics, scene, input, dim, store, view,
                   search>>

\* the loop condition fails: on to the next tap
threadLoop_exit ==
    /\ loop.phase = "loop"
    /\ ~RGt(loop.x, threadEndX(threads[loop.tap], loop))
    /\ loop' = tapOps_forEach(threads, loop.tap + 1, loop)
    /\ UNCHANGED <<spec, edits, drawn, profile, threads, metrics, scene, input, dim, store, view,
                   search>>

NextThreads ==
    \/ TechnicalDrawingSVG_threads
    \/ generateSVGString_threads
    \/ threadLines_push
    \/ threadLoop_exit

SpecThreads == InitThreads /\ [][NextThreads]_vars

\* the number x is neither NaN nor an infinity
IsFinite(x) == x[2] # 0

\* C21: every render finishes its thread pattern: for every record and every
\* dimension text, a loop that goes round again has finitely far to go to
\* its end, threadEndX, so that it ends after finitely many marks.
C21_ThreadLoopsFinish ==
    (loop.phase = "loop" /\ RGt(loop.x, threadEndX(threads[loop.tap], loop))) =>
        IsFinite(RSub(loop.x, threadEndX(threads[loop.tap], loop)))

-----------------------------------------------------------------------------
(* Properties of the record pages: what a Save keeps and what a reload shows *)

\* C26: on the ferrules and pins pages a Save with a non-blank name never
\* drops the form's content: after it the displayed list holds a record with
\* that content, also when the record being edited was deleted meanwhile.
C26_SaveKeepsContent ==
    [][(/\ view'.op = "handleSave"
        /\ view.page \in {"ferrules", "pins"}
        /\ Trim(view.currentSpec.name) # <<>>) =>
           Holds(view'.specs, view.currentSpec.name)]_vars

\* C27: on the ferrules page the list stored under 'ferrule-specs' equals the
\* list in memory after every save and delete, so that a reload shows the
\* listed records and no deleted one.
C27_StoredEqualsListed ==
    view.page = "ferrules" => store.local = view.specs

-----------------------------------------------------------------------------
(* The pins page with its requests to the cloud store in flight *)

CopySuffix == <<" ", "(", "C", "o", "p", "y", ")">>

\* a handler waiting for the cloud store, with the values of the render that
\* started it
Request(kind, id, current, specs) ==
    [kind |-> kind, id |-> id, currentSpec |-> current, specs |-> specs]

InitPins ==
    /\ \E configured \in BOOLEAN : store = [NoStore EXCEPT !.configured = configured]
    /\ view = [NoView EXCEPT !.page = "pins", !.op = "mount"]
    /\ spec = EmptySpec
    /\ edits = 0
    /\ drawn = FALSE
    /\ profile = <<>>
    /\ threads = <<>>
    /\ metrics = NoMetrics
    /\ scene = NoScene
    /\ input = Undefined
    /\ dim = Unparsed
    /\ loop = NoLoop
    /\ search = NoSearch

\* the name field of the open form
PinsForm_onChange == view.isEditing /\ setName

handleDuplicate ==
    /\ \E i \in 1..Len(view.specs) :
           view' = [view EXCEPT
                       !.currentSpec = Record(EmptyId, view.specs[i].name \o CopySuffix),
                       !.isEditing = TRUE, !.op = "handleDuplicate"]
    /\ UNCHANGED store
    /\ Unrendered

\* the header button: Add New Pin / Cancel
toggleEditing ==
    /\ view' = [view EXCEPT !.isEditing = ~@, !.op = "setIsEditing"]
    /\ UNCHANGED store
    /\ Unrendered

\* the Cancel button of the form
resetForm ==
    /\ view.isEditing
    /\ view' = [view EXCEPT !.currentSpec = EmptyForm, !.isEditing = FALSE, !.op = "resetForm"]
    /\ UNCHANGED store
    /\ Unrendered

\* handleSave up to its first await; without the cloud store it runs to its end
handleSave_begin ==
    /\ view.isEditing
    /\ ~view.saving
    /\ store.nextId <= MaxRecords
    /\ Cardinality(store.inFlight) < MaxInFlight
    /\ IF Trim(view.currentSpec.name) = <<>> THEN Refused("handleSave")
       ELSE IF ~store.configured THEN saveToLocalStorage
       ELSE \E r \in {Request("save", view.currentSpec.id, view.currentSpec, view.specs)} :
                /\ r \notin store.inFlight
                /\ view' = [view EXCEPT !.saving = TRUE, !.op = "handleSave"]
                /\ store' = [store EXCEPT !.inFlight = @ \cup {r}]
    /\ Unrendered

\* what the fetchPins of a handler hands to setSpecs: the documents, or local
\* storage when getDocs fails
Fetched(fetched, cloud, local) == IF fetched THEN Listing(cloud) ELSE local

\* handleSave after its await: the write went through and the list is
\* fetched, or it failed and the catch block saves locally; finally
\* setSaving(false)
handleSave_settle ==
    /\ \E r \in {q \in store.inFlight : q.kind = "save"}, written, fetched \in BOOLEAN :
           IF written /\ (r.id = EmptyId \/ \E d \in store.cloud : d.docId = r.id)
           THEN \E cloud \in {IF r.id = EmptyId
                              THEN store.cloud \cup {Doc(store.nextId, PinData(r.currentSpec))}
                              ELSE Updated(store.cloud, r.id, PinData(r.currentSpec))} :
                    /\ store' = [store EXCEPT !.cloud = cloud,
                                     !.nextId = IF r.id = EmptyId THEN @ + 1 ELSE @,
                                     !.inFlight = @ \ {r}]
                    /\ view' = [view EXCEPT !.specs = Fetched(fetched, cloud, store.local),
                                    !.currentSpec = EmptyForm, !.isEditing = FALSE,
                                    !.saving = FALSE, !.op = "handleSave"]
           ELSE \E specs \in {LocallySaved(r.specs, r.currentSpec, store.nextId)} :
                    /\ store' = [store EXCEPT !.local = specs,
                                     !.nextId = NextLocalId(r.currentSpec, @),
                                     !.inFlight = @ \ {r}]
                    /\ view' = [view EXCEPT !.specs = specs,
                                    !.currentSpec = EmptyForm, !.isEditing = FALSE,
                                    !.saving = FALSE, !.op = "handleSave"]
    /\ Unrendered

\* handleDelete, confirmed, up to its await; without the cloud store it runs
\* to its end
handleDelete_begin ==
    /\ Cardinality(store.inFlight) < MaxInFlight
    /\ \E i \in 1..Len(view.specs) :
           \E id \in {view.specs[i].id} :
               IF id = EmptyId THEN Refused("handleDelete")
               ELSE IF store.configured
               THEN \E r \in {Request("delete", id, EmptyForm, <<>>)} :
                        /\ r \notin store.inFlight
                        /\ view' = [view EXCEPT !.saving = TRUE, !.op = "handleDelete"]
                        /\ store' = [store EXCEPT !.inFlight = @ \cup {r}]
               ELSE /\ store' = [store EXCEPT !.local = Without(view.specs, id)]
                    /\ view' = [view EXCEPT !.specs = Without(view.specs, id),
                                    !.saving = FALSE, !.op = "handleDelete"]
    /\ Unrendered

\* handleDelete after its await: the document is gone and the list is
\* fetched, or the delete failed; finally setSaving(false)
handleDelete_settle ==
    /\ \E r \in {q \in store.inFlight : q.kind = "delete"}, deleted, fetched \in BOOLEAN :
           IF deleted
           THEN \E cloud \in {{d \in store.cloud : d.docId # r.id}} :
                    /\ store' = [store EXCEPT !.cloud = cloud, !.inFlight = @ \ {r}]
                    /\ view' = [view EXCEPT !.specs = Fetched(fetched, cloud, store.local),
                                    !.saving = FALSE, !.op = "handleDelete"]
           ELSE /\ store' = [store EXCEPT !.inFlight = @ \ {r}]
                /\ view' = [view EXCEPT !.saving = FALSE, !.op = "handleDelete"]
    /\ Unrendered

\* a refresh whose getDocs fails: the catch block shows local storage
fetchPins_catch ==
    /\ store.configured
    /\ view' = [view EXCEPT !.specs = store.local, !.op = "fetchPins"]
    /\ UNCHANGED store
    /\ Unrendered

NextPins ==
    \/ PinsForm_onChange
    \/ handleEdit
    \/ handleDuplicate
    \/ toggleEditing
    \/ resetForm
    \/ handleSave_begin
    \/ handleSave_settle
    \/ handleDelete_begin
    \/ handleDelete_settle
    \/ fetchPins
    \/ fetchPins_catch

SpecPins == InitPins /\ [][NextPins]_vars

\* the record is kept in local storage and is no document of the cloud store
LocalOnly(r) ==
    /\ \E i \in 1..Len(store.local) : store.local[i] = r
    /\ \A d \in store.cloud : d.docId # r.id

\* C25: with the cloud store, a pin that a failed cloud write left in local
\* storage stays in the displayed list across every refresh, whether the
\* refresh succeeds or fails.
C25_LocalPinStaysListed ==
    [][(store.configured /\ view'.op = "fetchPins") =>
           \A i \in 1..Len(view.specs) :
               LocalOnly(view.specs[i]) =>
                   \E j \in 1..Len(view'.specs) : view'.specs[j] = view.specs[i]]_vars

\* C28: whenever the form of the pins page is closed, currentSpec is the empty
\* spec with id ''.
C28_ClosedFormIsEmpty ==
    ~view.isEditing => view.currentSpec = EmptyForm

\* C29: on the pins page saving is true exactly while a Save or Delete
\* request to the cloud store is in flight.
C29_SavingWhileInFlight ==
    view.saving <=> store.inFlight # {}

-----------------------------------------------------------------------------
(* SearchFilter: the search box and sort controls above a list of records *)

SearchTerms == {<<>>, <<" ">>, <<"a">>, <<"b">>}

SortFields == {"name", "manufacture", "recent"}

SortOrders == {"asc", "desc"}

\* the documents a joints or modifications collection may hold
SearchDocs ==
    { Doc(1, JointData(Record(EmptyId, <<"B">>))),
      Doc(2, JointData(Record(EmptyId, <<"A">>))),
      Doc(3, JointData(Record(EmptyId, <<"B">>))),
      Doc(4, JointData(Record(EmptyId, <<"A">>))) }

\* items is the list the page fetched, in order of name
InitSearch ==
    /\ \E cloud \in SUBSET SearchDocs :
           /\ Cardinality(cloud) <= MaxRecords + 1
           /\ search = [NoSearch EXCEPT !.items = Listing(cloud), !.filtered = Listing(cloud)]
    /\ spec = EmptySpec
    /\ edits = 0
    /\ drawn = FALSE
    /\ profile = <<>>
    /\ threads = <<>>
    /\ metrics = NoMetrics
    /\ scene = NoScene
    /\ store = NoStore
    /\ view = NoView
    /\ input = Undefined
    /\ dim = Unparsed
    /\ loop = NoLoop

\* the search of filterAndSort: records have a name and none of the optional
\* fields, so an item matches when its lower-cased name includes the term
Matching(items, lowerTerm) ==
    SelectSeq(items, LAMBDA item : Includes(ToLowerCase(item.name), lowerTerm))

\* the comparator of filterAndSort says that a goes before b
GoesBefore(a, b, sortField, order) ==
    CASE sortField = "name" ->
             IF order = "asc" THEN LexLess(ToLowerCase(a.name), ToLowerCase(b.name), 1)
             ELSE LexLess(ToLowerCase(b.name), ToLowerCase(a.name), 1)
      [] sortField = "recent" -> IF order = "asc" THEN a.id < b.id ELSE a.id > b.id
      [] OTHER -> FALSE

\* item put after every element of sorted that need not follow it
RECURSIVE InsertItem(_, _, _, _, _)
InsertItem(sorted, i, item, sortField, order) ==
    IF i > Len(sorted) THEN Append(sorted, item)
    ELSE IF GoesBefore(item, sorted[i], sortField, order)
         THEN SubSeq(sorted, 1, i - 1) \o <<item>> \o SubSeq(sorted, i, Len(sorted))
         ELSE InsertItem(sorted, i + 1, item, sortField, order)

\* Array.prototype.sort with that comparator (stable) on the first n elements
RECURSIVE SortedItems(_, _, _, _)
SortedItems(list, n, sortField, order) ==
    IF n = 0 THEN <<>>
    ELSE InsertItem(SortedItems(list, n - 1, sortField, order), 1, list[n], sortField, order)

\* the array filterAndSort sorts: items itself when it did not filter
SortsItemsItself(term) == Trim(term) = <<>>

\* filterAndSort(term, sortField, order): filtered is sorted in place and
\* handed to onFilteredItems
filterAndSort(term, sortField, order, op) ==
    \E filtered \in {IF Trim(term) # <<>> THEN Matching(search.items, ToLowerCase(term))
                     ELSE search.items} :
        \E sorted \in {SortedItems(filtered, Len(filtered), sortField, order)} :
            /\ search' = [items |-> IF SortsItemsItself(term) THEN sorted ELSE search.items,
                          searchTerm |-> term, sortBy |-> sortField, sortOrder |-> order,
                          filtered |-> sorted, op |-> op]
            /\ UNCHANGED <<spec, edits, drawn, profile, threads, metrics, scene, input, dim,
                           store, view, loop>>

handleSearch ==
    \E term \in SearchTerms \ {search.searchTerm} :
        filterAndSort(term, search.sortBy, search.sortOrder, "handleSearch")

handleSort ==
    \E newSortBy \in SortFields, newSortOrder \in SortOrders :
        /\ <<newSortBy, newSortOrder>> # <<search.sortBy, search.sortOrder>>
        /\ filterAndSort(search.searchTerm, newSortBy, newSortOrder, "handleSort")

clearSearch ==
    /\ search.searchTerm # <<>>
    /\ filterAndSort(<<>>, search.sortBy, search.sortOrder, "clearSearch")

NextSearch ==
    \/ handleSearch
    \/ handleSort
    \/ clearSearch

SpecSearch == InitSearch /\ [][NextSearch]_vars

\* C30: filterAndSort leaves the items array it receives as it is, for every
\* search term, sort field and order: what it hands on is a list of its own.
C30_ItemsUntouched == [][search'.items = search.items]_vars

=============================================================================
